---- MODULE Spec2Model ----
(***************************************************************************)
(* Model of src/index.js: the connection supervisor (startBot,             *)
(* handleConnectionUpdate), the pairing coordinator (getPairingCode), the  *)
(* maintenance timers (startPresenceUpdates, startStatusSync) and the      *)
(* status dedup cache (handleStatusView, cleanupViewedStatus).             *)
(*                                                                         *)
(* Every action is one run of the event loop: the code from one            *)
(* suspension point (await, timer, event delivery) to the next.            *)
(***************************************************************************)
EXTENDS Integers, Sequences, FiniteSets

\* ---------------------------------------------------------------- bounds
\* startBot invocations that may be pending (timer armed) or running at once
MaxBoot == 2
\* transport handles (sockets) that may exist at once; a dead one is reused
MaxSocks == 2

\* ------------------------------------------------------ program constants
MAX_RETRY_ATTEMPTS == 5
\* config.pairingDelay || 10000, the settings leaving pairingDelay unset
PAIRING_STABILIZATION_DELAY == 10000
DefaultReconnectDelay == 5000
\* DisconnectReason.loggedOut of the transport library
LoggedOut == 401
ConnectionClosed == 428

\* the capacity of the dedup set (1000 in the source), scaled to the model
MAX_VIEWED_STATUS_SIZE == 2
\* status observations the dedup set may record in one run
MaxInserts == 4

BotIds == 1..MaxBoot
SockIds == 1..MaxSocks
\* one status id more than the dedup set can hold
StatusIds == 1..(MAX_VIEWED_STATUS_SIZE + 1)

VARIABLES
    config,             \* require("./settings"), fixed for the process lifetime
    retryAttempts,      \* let retryAttempts
    presenceInterval,   \* let presenceInterval: 0 is null, else a timer id
    statusSyncInterval, \* let statusSyncInterval: 0 is null, else a timer id
    timers,             \* the live setInterval timers: [id, kind, sock]
    bootTimers,         \* pending setTimeout(() => startBot(), delay): their delays
    bots,               \* the startBot invocations in flight and where they wait
    socks,              \* the transport handles made by makeWASocket
    openHandlers,       \* socks whose "open" handler waits in initializeStatusViewing
    exited,             \* process.exit(0) was called
    lifecycle,          \* kind of the last connection.update handled
    last,               \* what the last step did: [act, sock, info, sent]
    newest,             \* the handle the last makeWASocket returned, 0 before the first
    viewedStatus,       \* const viewedStatus = new Set(), in insertion order
    ttlTimers,          \* pending setTimeout(() => viewedStatus.delete(id)), per id
    reading,            \* handleStatusView invocations waiting in readMessages, per id
    effects,            \* per id: times recorded, read receipts and reactions issued
    lastView            \* what the last step of the status handler did

supervisorVars == <<retryAttempts, presenceInterval, statusSyncInterval, timers,
                    bootTimers, bots, socks, openHandlers, exited, lifecycle, last,
                    newest>>

cacheVars == <<viewedStatus, ttlTimers, reading, effects, lastView>>

vars == <<config, supervisorVars, cacheVars>>

\* ------------------------------------------------------------- utilities
Digits == {"0", "1", "2", "3", "4", "5", "6", "7", "8", "9"}

IsDigit(ch) == ch \in Digits

\* phone.replace(/[^0-9]/g, '')
formatPhoneNumber(phone) == SelectSeq(phone, IsDigit)

\* !phoneNumber || phoneNumber.length < 10 || phoneNumber.length > 15
InvalidPhone(p) == Len(p) = 0 \/ Len(p) < 10 \/ Len(p) > 15

\* /^\d{10,15}$/.test(ownerNumber)
OwnerFormatOk(n) ==
    /\ Len(n) >= 10
    /\ Len(n) <= 15
    /\ \A i \in 1..Len(n) : IsDigit(n[i])

\* the keys of `required` whose value is falsy
MissingKeys(c) ==
    {k \in {"botName", "ownerNumber", "reconnectDelay"} :
        \/ k = "botName" /\ c.botName = ""
        \/ k = "ownerNumber" /\ c.ownerNumber = <<>>
        \/ k = "reconnectDelay" /\ c.reconnectDelay = 0}

\* TRUE when validateConfig() throws
validateConfigThrows(c) ==
    \/ MissingKeys(c) # {}
    \/ c.ownerNumber # <<>> /\ ~OwnerFormatOk(c.ownerNumber)

\* config.reconnectDelay || 5000
ReconnectDelay ==
    IF config.reconnectDelay # 0 THEN config.reconnectDelay ELSE DefaultReconnectDelay

GoodOwner == <<"2", "5", "4", "7", "1", "2", "3", "4", "5", "6", "7", "8">>
BadOwner == <<"+", "2", "5", "4", "7", "1", "2", "3", "4", "5", "6", "7">>

\* the settings the process may be started with
Configs ==
    {[botName |-> "BMX", ownerNumber |-> o, reconnectDelay |-> d,
      autoViewStatus |-> v, autoReactStatus |-> r, statusReactionEmoji |-> e] :
        o \in {GoodOwner, BadOwner}, d \in {0, 3000}, v \in BOOLEAN, r \in BOOLEAN,
        e \in {"", "heart"}}

\* what the user may type at the pairing prompt
PhoneInputs ==
    {<<"2", "5", "4", "-", "7", "1", "2", "-", "3", "4", "5", "6", "7", "8">>,
     <<"0", "7", "1", "2">>}

\* ------------------------------------------------------------ supervisor
\* the slot of no invocation; `waited` is the time the pairing attempt in
\* progress has spent in its stabilization timer
IdleBot == [pc |-> "idle", sock |-> 0, seq |-> -1, waited |-> 0]

NoTimers == {}

\* a step that sends `sent` to the transport of handle `sock`
Sent(act, sock, info, sent) == [act |-> act, sock |-> sock, info |-> info, sent |-> sent]

Step(act, sock, info) == Sent(act, sock, info, "none")

\* the number of startBot invocations between their first and last line
Running == Cardinality({b \in BotIds : bots[b].pc # "idle"})

\* a handle nothing refers to any more: no invocation holds it, no handler of
\* it is suspended and no live timer calls it
Unreferenced(s) ==
    /\ \A b \in BotIds : bots[b].sock # s
    /\ s \notin openHandlers
    /\ \A t \in timers : t.sock # s

\* the handle ids makeWASocket may hand out: never used, or closed and dropped
FreeSocks ==
    {s \in SockIds :
        \/ socks[s].st = "free"
        \/ socks[s].st = "closed" /\ Unreferenced(s)}

Least(S) == CHOOSE n \in S : \A m \in S : n <= m

\* a timer id no live timer and no variable holds
FreshTimer(used) == Least((1..(Cardinality(used) + 1)) \ used)

\* a setTimeout that is never armed
ScheduleNothing(pending) == pending

\* lines 312-314, and 248-250: setTimeout(() => startBot(), delay)
ScheduleBoot(pending) == Append(pending, ReconnectDelay)

\* startBot() up to its first await (lines 270-276): validateConfig, and on a
\* throw the catch block of lines 309-315
StartBotPrefix(b, pending) ==
    IF validateConfigThrows(config)
    THEN /\ bots' = bots
         /\ bootTimers' = ScheduleBoot(pending)
         /\ last' = Step("configError", 0, ReconnectDelay)
    ELSE /\ bots' = [bots EXCEPT ![b] = [IdleBot EXCEPT !.pc = "auth"]]
         /\ bootTimers' = pending
         /\ last' = Step("startBot", 0, 0)

\* the module-level state of lines 23-26 and the call of startBot() at line 333
SupervisorInit ==
    /\ retryAttempts = 0
    /\ presenceInterval = 0
    /\ statusSyncInterval = 0
    /\ timers = NoTimers
    /\ socks = [s \in SockIds |-> [st |-> "free", listeners |-> FALSE]]
    /\ openHandlers = {}
    /\ exited = FALSE
    /\ lifecycle = "none"
    /\ newest = 0
    /\ IF validateConfigThrows(config)
       THEN /\ bots = [b \in BotIds |-> IdleBot]
            /\ bootTimers = <<ReconnectDelay>>
            /\ last = Step("configError", 0, ReconnectDelay)
       ELSE /\ bots = [b \in BotIds |-> IF b = 1 THEN [IdleBot EXCEPT !.pc = "auth"]
                                        ELSE IdleBot]
            /\ bootTimers = <<>>
            /\ last = Step("startBot", 0, 0)

NoEffects == [inserts |-> 0, receipts |-> 0, reactions |-> 0]

ViewStep(act, id, sender) == [act |-> act, id |-> id, sender |-> sender]

\* line 23: the dedup set is empty when the module is loaded
CacheInit ==
    /\ viewedStatus = <<>>
    /\ ttlTimers = [i \in StatusIds |-> 0]
    /\ reading = [i \in StatusIds |-> 0]
    /\ effects = [i \in StatusIds |-> NoEffects]
    /\ lastView = ViewStep("none", 0, FALSE)

\* the state after the module is loaded; the reaction settings are read by
\* handleStatusView alone, so the supervisor is explored with one value of them
Init ==
    /\ config \in {c \in Configs : ~c.autoReactStatus /\ c.statusReactionEmoji = ""}
    /\ SupervisorInit
    /\ CacheInit

\* a reconnection timer fires: () => startBot()
BootTimerFire ==
    /\ ~exited
    /\ bootTimers # <<>>
    /\ \E b \in BotIds :
        /\ bots[b].pc = "idle"
        /\ \A c \in BotIds : bots[c].pc = "idle" => b <= c
        /\ StartBotPrefix(b, Tail(bootTimers))
    /\ UNCHANGED <<config, newest, retryAttempts, presenceInterval, statusSyncInterval,
                   timers, socks, openHandlers, exited, lifecycle>>
    /\ UNCHANGED cacheVars

\* a catch block that reports the error and arms no timer
CatchBootNoRetry(b, why, info) ==
    /\ bots' = [bots EXCEPT ![b] = IdleBot]
    /\ bootTimers' = bootTimers
    /\ last' = Step(why, bots[b].sock, info)

\* the catch block of startBot (lines 309-315) ends invocation b
CatchBoot(b, why, info) ==
    /\ bots' = [bots EXCEPT ![b] = IdleBot]
    /\ bootTimers' = ScheduleBoot(bootTimers)
    /\ last' = Step(why, bots[b].sock, info)

\* line 276: await useMultiFileAuthState resolves or rejects
AuthState(b, ok) ==
    /\ ~exited
    /\ bots[b].pc = "auth"
    /\ IF ok
       THEN /\ bots' = [bots EXCEPT ![b].pc = "version"]
            /\ last' = Step("authState", 0, 0)
            /\ UNCHANGED bootTimers
       ELSE CatchBoot(b, "authFailed", ReconnectDelay)
    /\ UNCHANGED <<config, newest, retryAttempts, presenceInterval, statusSyncInterval,
                   timers, socks, openHandlers, exited, lifecycle>>
    /\ UNCHANGED cacheVars

\* line 277 rejects, or line 280 throws
VersionOrSocketFails(b, why) ==
    /\ ~exited
    /\ bots[b].pc = "version"
    /\ CatchBoot(b, why, ReconnectDelay)
    /\ UNCHANGED <<config, newest, retryAttempts, presenceInterval, statusSyncInterval,
                   timers, socks, openHandlers, exited, lifecycle>>
    /\ UNCHANGED cacheVars

\* lines 302-305: the listeners of startBot are attached to handle s
AttachListeners(s, record) == [socks EXCEPT ![s] = [record EXCEPT !.listeners = TRUE]]

\* lines 277-307 for a registered session: the version arrives, the handle is
\* made, no pairing is needed and the listeners are attached at once
MakeSocketRegistered(b) ==
    /\ ~exited
    /\ bots[b].pc = "version"
    /\ FreeSocks # {}
    /\ LET s == Least(FreeSocks) IN
        /\ socks' = AttachListeners(s, [st |-> "connecting", listeners |-> FALSE])
        /\ last' = Step("initialized", s, 0)
        /\ newest' = s
    /\ bots' = [bots EXCEPT ![b] = IdleBot]
    /\ UNCHANGED <<config, retryAttempts, presenceInterval, statusSyncInterval,
                   timers, bootTimers, openHandlers, exited, lifecycle>>
    /\ UNCHANGED cacheVars

\* lines 277-298 and 59-69 for an unregistered session: the handle is made and
\* getPairingCode starts its stabilization wait; no listener is attached yet
MakeSocketUnregistered(b) ==
    /\ ~exited
    /\ bots[b].pc = "version"
    /\ FreeSocks # {}
    /\ LET s == Least(FreeSocks) IN
        /\ socks' = [socks EXCEPT ![s] = [st |-> "connecting", listeners |-> FALSE]]
        /\ bots' = [bots EXCEPT ![b] = [pc |-> "stabilize", sock |-> s,
                                        seq |-> IF retryAttempts = 0 THEN 0 ELSE -1,
                                        waited |-> 0]]
        /\ last' = Step("pairingStarted", s, 0)
        /\ newest' = s
    /\ UNCHANGED <<config, retryAttempts, presenceInterval, statusSyncInterval,
                   timers, bootTimers, openHandlers, exited, lifecycle>>
    /\ UNCHANGED cacheVars

\* line 69: the stabilization timer fires; line 71 prompts
Stabilized(b) ==
    /\ ~exited
    /\ bots[b].pc = "stabilize"
    /\ bots' = [bots EXCEPT ![b].pc = "prompt",
                             ![b].waited = PAIRING_STABILIZATION_DELAY]
    /\ last' = Step("stabilized", bots[b].sock, 0)
    /\ UNCHANGED <<config, newest, retryAttempts, presenceInterval, statusSyncInterval,
                   timers, bootTimers, socks, openHandlers, exited, lifecycle>>
    /\ UNCHANGED cacheVars

\* the failures counted by invocation b in its pairing sequence, after one
\* more: -1 once the sequence did not start from 0 or another writer of
\* retryAttempts came between
SeqAfterFailure(b) ==
    IF bots[b].seq >= 0 /\ bots[b].seq = retryAttempts THEN bots[b].seq + 1 ELSE -1

\* a catch block that counts the failure first and compares afterwards
PairingFailedCountsFirst(b, why) ==
    IF retryAttempts + 1 < MAX_RETRY_ATTEMPTS
    THEN /\ retryAttempts' = retryAttempts + 1
         /\ bots' = [bots EXCEPT ![b].pc = "backoff", ![b].seq = SeqAfterFailure(b)]
         /\ last' = Step(why, bots[b].sock, SeqAfterFailure(b))
         /\ UNCHANGED bootTimers
    ELSE /\ retryAttempts' = retryAttempts + 1
         /\ CatchBoot(b, "pairingExhausted", SeqAfterFailure(b))

\* a catch block that still retries when the counter is at its maximum
PairingFailedInclusive(b, why) ==
    IF retryAttempts <= MAX_RETRY_ATTEMPTS
    THEN /\ retryAttempts' = retryAttempts + 1
         /\ bots' = [bots EXCEPT ![b].pc = "backoff", ![b].seq = SeqAfterFailure(b)]
         /\ last' = Step(why, bots[b].sock, SeqAfterFailure(b))
         /\ UNCHANGED bootTimers
    ELSE /\ retryAttempts' = retryAttempts
         /\ CatchBoot(b, "pairingExhausted", SeqAfterFailure(b))

\* lines 82-92: the catch block of getPairingCode, entered for the reason `why`
PairingFailed(b, why) ==
    IF retryAttempts < MAX_RETRY_ATTEMPTS
    THEN /\ retryAttempts' = retryAttempts + 1
         /\ bots' = [bots EXCEPT ![b].pc = "backoff", ![b].seq = SeqAfterFailure(b)]
         /\ last' = Step(why, bots[b].sock, SeqAfterFailure(b))
         /\ UNCHANGED bootTimers
    ELSE /\ retryAttempts' = retryAttempts
         /\ CatchBoot(b, "pairingExhausted", SeqAfterFailure(b))

\* lines 71-78: the user answers; the number is normalised and validated and,
\* when valid, the pairing code is requested
Answer(b, phone) ==
    /\ ~exited
    /\ bots[b].pc = "prompt"
    /\ IF InvalidPhone(formatPhoneNumber(phone))
       THEN PairingFailed(b, "invalidPhone")
       ELSE /\ bots' = [bots EXCEPT ![b].pc = "request"]
            /\ last' = Sent("answered", bots[b].sock, Len(formatPhoneNumber(phone)),
                            "requestPairingCode")
            /\ UNCHANGED <<retryAttempts, bootTimers>>
    /\ UNCHANGED <<config, newest, presenceInterval, statusSyncInterval,
                   timers, socks, openHandlers, exited, lifecycle>>
    /\ UNCHANGED cacheVars

\* lines 78-80 and 302-307: the code arrives, the counter is reset and startBot
\* attaches its listeners; a transport that has closed answers no request.
\* The step records the value the counter had before the reset
PairingSucceeds(b) ==
    /\ ~exited
    /\ bots[b].pc = "request"
    /\ socks[bots[b].sock].st # "closed"
    /\ retryAttempts' = 0
    /\ socks' = AttachListeners(bots[b].sock, socks[bots[b].sock])
    /\ bots' = [bots EXCEPT ![b] = IdleBot]
    /\ last' = Step("paired", bots[b].sock, retryAttempts)
    /\ UNCHANGED <<config, newest, presenceInterval, statusSyncInterval,
                   timers, bootTimers, openHandlers, exited, lifecycle>>
    /\ UNCHANGED cacheVars

\* line 78 rejects
PairingRequestFails(b) ==
    /\ ~exited
    /\ bots[b].pc = "request"
    /\ PairingFailed(b, "requestFailed")
    /\ UNCHANGED <<config, newest, presenceInterval, statusSyncInterval,
                   timers, socks, openHandlers, exited, lifecycle>>
    /\ UNCHANGED cacheVars

\* a retry that prompts again at once, without a new stabilization wait
BackoffDoneSkipsWait(b) ==
    /\ ~exited
    /\ bots[b].pc = "backoff"
    /\ bots' = [bots EXCEPT ![b].pc = "prompt", ![b].waited = 0]
    /\ last' = Step("retryStarted", bots[b].sock, 0)
    /\ UNCHANGED <<config, newest, retryAttempts, presenceInterval, statusSyncInterval,
                   timers, bootTimers, socks, openHandlers, exited, lifecycle>>
    /\ UNCHANGED cacheVars

\* line 88-89: the 3000 ms backoff ends and getPairingCode calls itself, which
\* starts a new stabilization timer (line 69)
BackoffDone(b) ==
    /\ ~exited
    /\ bots[b].pc = "backoff"
    /\ bots' = [bots EXCEPT ![b].pc = "stabilize", ![b].waited = 0]
    /\ last' = Step("retryStarted", bots[b].sock, 0)
    /\ UNCHANGED <<config, newest, retryAttempts, presenceInterval, statusSyncInterval,
                   timers, bootTimers, socks, openHandlers, exited, lifecycle>>
    /\ UNCHANGED cacheVars

\* --------------------------------------------------- maintenance timers
\* a clearInterval that cancels nothing
ClearNothing(live, handle) == live

\* clearInterval(handle) when handle is not null; the variable keeps its value
ClearInterval(live, handle) ==
    IF handle # 0 THEN {t \in live : t.id # handle} ELSE live

TimerIdsInUse(live) == {t.id : t \in live} \cup ({presenceInterval, statusSyncInterval} \ {0})

\* setInterval(...) for handle s: the new timer
NewTimer(live, kind, s) == [id |-> FreshTimer(TimerIdsInUse(live)), kind |-> kind, sock |-> s]

\* a startPresenceUpdates that does not clear the interval it replaces
PresenceTimersNoClear(live, s) == live \cup {NewTimer(live, "presence", s)}

\* startPresenceUpdates(sock), lines 197-208: the live timers afterwards
PresenceTimersAfter(live, s) ==
    LET cleared == ClearInterval(live, presenceInterval)
    IN  cleared \cup {NewTimer(cleared, "presence", s)}

\* startStatusSync(sock), lines 218-233: the live timers afterwards
StatusSyncTimersAfter(live, s) ==
    IF ~config.autoViewStatus
    THEN live
    ELSE LET cleared == ClearInterval(live, statusSyncInterval)
         IN  cleared \cup {NewTimer(cleared, "statusSync", s)}

\* the value a handle variable holds after the timers `live` were created:
\* the id setInterval returned for `kind`, or its old value when none was made
HandleOf(live, kind, old) ==
    IF \E t \in live : t.kind = kind
    THEN (CHOOSE t \in live : t.kind = kind /\ t.id # old).id
    ELSE old

\* a close that clears the presence interval alone
StopPresenceOnly(live) == ClearInterval(live, presenceInterval)

\* lines 240-241: both intervals are cleared on a close
StopMaintenance(live) ==
    ClearInterval(ClearInterval(live, presenceInterval), statusSyncInterval)

\* ------------------------------------------------------ lifecycle events
\* lastDisconnect of a close: no error, a plain Error, or a Boom with a code
CloseReasons ==
    {[error |-> FALSE, boom |-> FALSE, statusCode |-> 0],
     [error |-> TRUE, boom |-> FALSE, statusCode |-> LoggedOut],
     [error |-> TRUE, boom |-> TRUE, statusCode |-> ConnectionClosed],
     [error |-> TRUE, boom |-> TRUE, statusCode |-> LoggedOut]}

\* lastDisconnect.error.output.statusCode of a Boom, 0 when there is none
BoomStatusCode(reason) == IF reason.error /\ reason.boom THEN reason.statusCode ELSE 0

\* a classification that reads the status code of any error, Boom or not
shouldReconnectAnyError(reason) ==
    IF reason.error THEN reason.statusCode # LoggedOut ELSE TRUE

\* lines 243-245
shouldReconnect(reason) ==
    IF reason.error /\ reason.boom THEN reason.statusCode # LoggedOut ELSE TRUE

\* lines 262-266: startPresenceUpdates(sock), which sends a presence update
\* at once, and startStatusSync(sock)
StartMaintenance(s) ==
    LET p == PresenceTimersAfter(timers, s)
        q == StatusSyncTimersAfter(p, s)
    IN  /\ timers' = q
        /\ presenceInterval' = HandleOf(p \ timers, "presence", presenceInterval)
        /\ statusSyncInterval' = HandleOf(q \ p, "statusSync", statusSyncInterval)

\* connection.update {connection: "open"} of a handle with listeners, lines
\* 255-266. With autoViewStatus the handler sends the priming message and
\* waits for the transport in initializeStatusViewing; without it nothing is
\* awaited from outside and the handler runs to its end
ConnectionOpen(s) ==
    /\ ~exited
    /\ socks[s].st = "connecting"
    /\ socks[s].listeners
    /\ s \notin openHandlers
    /\ socks' = [socks EXCEPT ![s].st = "open"]
    /\ retryAttempts' = 0
    /\ lifecycle' = "open"
    /\ IF config.autoViewStatus
       THEN /\ openHandlers' = openHandlers \cup {s}
            /\ last' = Sent("open", s, 0, "priming")
            /\ UNCHANGED <<presenceInterval, statusSyncInterval, timers>>
       ELSE /\ openHandlers' = openHandlers
            /\ StartMaintenance(s)
            /\ last' = Sent("open", s, 0, "presence")
    /\ UNCHANGED <<config, newest, bootTimers, bots, exited>>
    /\ UNCHANGED cacheVars

\* lines 260-266: the priming call returns (its failure is swallowed) and the
\* open handler starts the presence updates and the status sync
OpenHandlerResumes(s) ==
    /\ ~exited
    /\ s \in openHandlers
    /\ openHandlers' = openHandlers \ {s}
    /\ StartMaintenance(s)
    /\ last' = Sent("openResumed", s, 0, "presence")
    /\ UNCHANGED <<config, newest, retryAttempts, bootTimers, bots, socks, exited, lifecycle>>
    /\ UNCHANGED cacheVars

\* connection.update {connection: "close"} of a handle with listeners: lines
\* 238-254
ConnectionClose(s, reason) ==
    /\ ~exited
    /\ socks[s].st # "free"
    /\ socks[s].listeners
    /\ shouldReconnect(reason) => Len(bootTimers) + Running < MaxBoot
    /\ socks' = [socks EXCEPT ![s].st = "closed"]
    /\ timers' = StopMaintenance(timers)
    /\ lifecycle' = "closed"
    /\ IF shouldReconnect(reason)
       THEN /\ bootTimers' = ScheduleBoot(bootTimers)
            /\ exited' = FALSE
       ELSE /\ bootTimers' = bootTimers
            /\ exited' = TRUE
    /\ last' = Step("close", s, BoomStatusCode(reason))
    /\ UNCHANGED <<config, newest, retryAttempts, presenceInterval, statusSyncInterval,
                   bots, openHandlers>>
    /\ UNCHANGED cacheVars

\* the transport of a handle that has no listener yet (or none any more)
\* closes: nobody is told
SilentClose(s) ==
    /\ ~exited
    /\ socks[s].st = "connecting"
    /\ ~socks[s].listeners
    /\ socks' = [socks EXCEPT ![s].st = "closed"]
    /\ last' = Step("silentClose", s, 0)
    /\ UNCHANGED <<config, newest, retryAttempts, presenceInterval, statusSyncInterval,
                   timers, bootTimers, bots, openHandlers, exited, lifecycle>>
    /\ UNCHANGED cacheVars

\* the presence interval fires: updatePresence(sock), lines 205-212
PresenceTick(t) ==
    /\ ~exited
    /\ t \in timers
    /\ t.kind = "presence"
    /\ last' = Sent("presenceTick", t.sock, 0, "presence")
    /\ UNCHANGED <<config, newest, retryAttempts, presenceInterval, statusSyncInterval,
                   timers, bootTimers, bots, socks, openHandlers, exited, lifecycle>>
    /\ UNCHANGED cacheVars

\* the status-sync interval fires: lines 225-232
StatusSyncTick(t) ==
    /\ ~exited
    /\ t \in timers
    /\ t.kind = "statusSync"
    /\ last' = Sent("statusSyncTick", t.sock, 0, "resubscribe")
    /\ UNCHANGED <<config, newest, retryAttempts, presenceInterval, statusSyncInterval,
                   timers, bootTimers, bots, socks, openHandlers, exited, lifecycle>>
    /\ UNCHANGED cacheVars

Next ==
    \/ BootTimerFire
    \/ \E b \in BotIds, ok \in BOOLEAN : AuthState(b, ok)
    \/ \E b \in BotIds, why \in {"versionFailed", "socketFailed"} : VersionOrSocketFails(b, why)
    \/ \E b \in BotIds : MakeSocketRegistered(b)
    \/ \E b \in BotIds : MakeSocketUnregistered(b)
    \/ \E b \in BotIds : Stabilized(b)
    \/ \E b \in BotIds, phone \in PhoneInputs : Answer(b, phone)
    \/ \E b \in BotIds : PairingSucceeds(b)
    \/ \E b \in BotIds : PairingRequestFails(b)
    \/ \E b \in BotIds : BackoffDone(b)
    \/ \E s \in SockIds : ConnectionOpen(s)
    \/ \E s \in SockIds : OpenHandlerResumes(s)
    \/ \E s \in SockIds, reason \in CloseReasons : ConnectionClose(s, reason)
    \/ \E s \in SockIds : SilentClose(s)
    \/ \E t \in timers : PresenceTick(t)
    \/ \E t \in timers : StatusSyncTick(t)

Spec == Init /\ [][Next]_vars

\* ---------------------------------------------------------- dedup cache
\* viewedStatus.has(id)
Has(set, id) == \E i \in 1..Len(set) : set[i] = id

\* viewedStatus.add(id): a Set keeps insertion order and holds an id once
Add(set, id) == IF Has(set, id) THEN set ELSE Append(set, id)

\* viewedStatus.delete(id)
Delete(set, id) == SelectSeq(set, LAMBDA x : x # id)

\* an eviction that removes the newest ids
DeleteNewest(set, n) ==
    IF n <= 0 \/ set = <<>> THEN set ELSE SubSeq(set, 1, Len(set) - n)

\* lines 52-55: delete iterator.next().value, n times
RECURSIVE DeleteOldest(_, _)
DeleteOldest(set, n) ==
    IF n <= 0 \/ set = <<>> THEN set ELSE DeleteOldest(Delete(set, Head(set)), n - 1)

\* a cleanup that starts one entry too late
cleanupOneTooLate(set) ==
    IF Len(set) > MAX_VIEWED_STATUS_SIZE + 1
    THEN DeleteOldest(set, Len(set) - MAX_VIEWED_STATUS_SIZE)
    ELSE set

\* cleanupViewedStatus(), lines 49-57
cleanupViewedStatus(set) ==
    IF Len(set) > MAX_VIEWED_STATUS_SIZE
    THEN DeleteOldest(set, Len(set) - MAX_VIEWED_STATUS_SIZE)
    ELSE set

RECURSIVE SumInserts(_)
SumInserts(ids) ==
    IF ids = {} THEN 0
    ELSE LET i == CHOOSE x \in ids : TRUE IN effects[i].inserts + SumInserts(ids \ {i})

\* the ids recorded so far, over all ids
Recorded == SumInserts(StatusIds)

\* 1 when line 103 adds an id the set does not hold, 0 when it holds it already
NewlyRecorded(id) == IF Has(viewedStatus, id) THEN 0 ELSE 1

\* a handler without the check of line 101
NeverDuplicate(id) == FALSE

\* a check that looks at the newest recorded id only
IsDuplicateOfNewest(id) == viewedStatus # <<>> /\ viewedStatus[Len(viewedStatus)] = id

\* line 101: if (viewedStatus.has(statusId)) return
IsDuplicate(id) == Has(viewedStatus, id)

\* config.autoReactStatus && config.statusReactionEmoji
ReactionEnabled == config.autoReactStatus /\ config.statusReactionEmoji # ""

\* handleStatusView(sock, msg) up to its first await, lines 98-112: a status
\* message with id `id` is delivered, with msg.key.participant set or not
StatusDelivered(id, sender) ==
    /\ IF IsDuplicate(id)
       THEN /\ lastView' = ViewStep("duplicate", id, sender)
            /\ UNCHANGED <<viewedStatus, ttlTimers, reading, effects>>
       ELSE /\ Recorded < MaxInserts
            /\ viewedStatus' = cleanupViewedStatus(Add(viewedStatus, id))
            /\ ttlTimers' = [ttlTimers EXCEPT ![id] = @ + 1]
            /\ IF sender
               THEN /\ reading' = [reading EXCEPT ![id] = @ + 1]
                    /\ effects' = [effects EXCEPT ![id].inserts = @ + NewlyRecorded(id),
                                                  ![id].receipts = @ + 1]
                    /\ lastView' = ViewStep("readMessages", id, sender)
               ELSE /\ reading' = reading
                    /\ effects' = [effects EXCEPT ![id].inserts = @ + NewlyRecorded(id)]
                    /\ lastView' = ViewStep("recorded", id, sender)
    /\ UNCHANGED <<config, supervisorVars>>

\* line 106: a TTL timer of id fires
TtlExpires(id) ==
    /\ ttlTimers[id] > 0
    /\ ttlTimers' = [ttlTimers EXCEPT ![id] = @ - 1]
    /\ viewedStatus' = Delete(viewedStatus, id)
    /\ lastView' = ViewStep("expired", id, FALSE)
    /\ UNCHANGED <<reading, effects>>
    /\ UNCHANGED <<config, supervisorVars>>

\* lines 112-122: readMessages returns; the reaction is sent when enabled. A
\* rejection goes to the catch block and sends nothing
ReadReturns(id, ok) ==
    /\ reading[id] > 0
    /\ reading' = [reading EXCEPT ![id] = @ - 1]
    /\ IF ok /\ ReactionEnabled
       THEN /\ effects' = [effects EXCEPT ![id].reactions = @ + 1]
            /\ lastView' = ViewStep("sendReaction", id, TRUE)
       ELSE /\ effects' = effects
            /\ lastView' = ViewStep(IF ok THEN "viewed" ELSE "viewError", id, TRUE)
    /\ UNCHANGED <<viewedStatus, ttlTimers>>
    /\ UNCHANGED <<config, supervisorVars>>

\* handleStatusView runs only when config.autoViewStatus is set (line 158)
InitCache ==
    /\ config \in {c \in Configs : /\ ~validateConfigThrows(c)
                                   /\ c.autoViewStatus
                                   /\ c.statusReactionEmoji # ""}
    /\ SupervisorInit
    /\ CacheInit

NextCache ==
    \/ \E id \in StatusIds, sender \in BOOLEAN : StatusDelivered(id, sender)
    \/ \E id \in StatusIds : TtlExpires(id)
    \/ \E id \in StatusIds, ok \in BOOLEAN : ReadReturns(id, ok)

SpecCache == InitCache /\ [][NextCache]_vars

\* the timers of the event loop fire: a pending reconnection timer is not
\* postponed for ever
FairSpec == Spec /\ WF_vars(BootTimerFire)

\* ================================================================ claims

\* C1: every close event handled by handleConnectionUpdate schedules no
\* bootstrap and ends the process when its reason is the logged-out
\* classification (a Boom whose status code is loggedOut), and schedules
\* exactly one bootstrap, with the configured reconnect delay, for any other
\* reason, a close without error included.
C1_CloseSchedulesOneBootstrap ==
    [][last'.act = "close" =>
        IF last'.info = LoggedOut
        THEN bootTimers' = bootTimers /\ exited'
        ELSE bootTimers' = Append(bootTimers, config.reconnectDelay) /\ ~exited']_vars

C1_Witness ==
    /\ last.act = "close"
    /\ last.info = 0
    /\ bootTimers = <<config.reconnectDelay>>
    /\ ~exited

\* the handles whose transport is connecting or open
ActiveHandles == {s \in SockIds : socks[s].st \in {"connecting", "open"}}

\* C2: in every reachable state at most one handle is active and at most one
\* reconnection timer is pending (so no bootstrap is scheduled while another
\* scheduled bootstrap is pending).
C2_OneHandleOneTimer ==
    /\ Cardinality(ActiveHandles) <= 1
    /\ Len(bootTimers) <= 1

PairingPcs == {"stabilize", "prompt", "request"}

C4_NoMaintenanceAfterClose ==
    last.sent \in {"presence", "resubscribe"} => lifecycle # "closed"

\* C5 as stated: over the whole run the read receipt and the reaction of one
\* status id are issued at most once.
C5_EffectsAtMostOnceEver ==
    \A id \in StatusIds : effects[id].receipts <= 1 /\ effects[id].reactions <= 1

\* C5 amended: the read receipt and the reaction of one status id are issued
\* at most once for each time the id is recorded anew in the dedup set; a
\* delivery that finds the id recorded issues none, also while an earlier
\* handler of the id is still waiting in readMessages.
C5_EffectsAtMostOncePerRecording ==
    \A id \in StatusIds :
        /\ effects[id].receipts <= effects[id].inserts
        /\ effects[id].reactions <= effects[id].receipts
        /\ reading[id] <= effects[id].receipts - effects[id].reactions

C5_Witness ==
    /\ lastView.act = "duplicate"
    /\ reading[lastView.id] = 1
    /\ effects[lastView.id].receipts = 1

Observations == {"duplicate", "recorded", "readMessages"}

\* C6: an observation of an id the dedup set does not hold records the id,
\* arms its TTL timer and goes on to the side effects (the read receipt, when
\* the message names its sender); an observation of an id the set still holds
\* records nothing, arms nothing and has no side effect.
C6_FirstNewThenDuplicate ==
    [][lastView'.act \in Observations =>
        LET id == lastView'.id IN
        IF Has(viewedStatus, id)
        THEN /\ lastView'.act = "duplicate"
             /\ UNCHANGED <<viewedStatus, ttlTimers, reading, effects>>
        ELSE /\ lastView'.act # "duplicate"
             /\ Has(viewedStatus', id)
             /\ ttlTimers'[id] = ttlTimers[id] + 1
             /\ effects'[id].inserts = effects[id].inserts + 1
             /\ effects'[id].receipts = effects[id].receipts + (IF lastView'.sender THEN 1 ELSE 0)
             /\ reading'[id] = reading[id] + (IF lastView'.sender THEN 1 ELSE 0)]_vars

C6_Witness ==
    /\ lastView.act = "duplicate"
    /\ effects[lastView.id].inserts = 1
    /\ effects[lastView.id].receipts = 1
    /\ ttlTimers[lastView.id] = 1

\* C7: the dedup set never holds more than MAX_VIEWED_STATUS_SIZE ids.
C7_CacheWithinCapacity == Len(viewedStatus) <= MAX_VIEWED_STATUS_SIZE

C7_Witness ==
    /\ lastView.act \in {"recorded", "readMessages"}
    /\ Recorded > MAX_VIEWED_STATUS_SIZE
    /\ Len(viewedStatus) = MAX_VIEWED_STATUS_SIZE
    /\ \A id \in StatusIds : ttlTimers[id] = effects[id].inserts

\* C8: an insertion that takes the dedup set above its capacity removes the
\* oldest-inserted ids, in insertion order, until the capacity is met, and
\* keeps the others in their order; the ids removed are not in the set, so
\* their next observation is a new one.
C8_EvictsOldestFirst ==
    [][lastView'.act \in {"recorded", "readMessages"} =>
        LET added == Append(viewedStatus, lastView'.id)
            over == Len(added) - MAX_VIEWED_STATUS_SIZE
        IN  IF over > 0
            THEN /\ viewedStatus' = SubSeq(added, over + 1, Len(added))
                 /\ \A i \in 1..over : ~Has(viewedStatus', added[i])
            ELSE viewedStatus' = added]_vars

\* an id evicted while its TTL timer was still pending has been recorded anew
C8_Witness ==
    /\ lastView.act \in {"recorded", "readMessages"}
    /\ effects[lastView.id].inserts = 2
    /\ ttlTimers[lastView.id] = 2
    /\ Len(viewedStatus) = MAX_VIEWED_STATUS_SIZE

\* C9: a bootstrap that fails for a recoverable reason arms one reconnection
\* timer with the configured delay and does not end the process; and when a
\* bootstrap ends, either its handle has its listeners attached or a
\* reconnection timer is pending.
C9_FailedBootstrapIsRetried ==
    [][/\ last'.act \in {"authFailed", "versionFailed", "socketFailed", "pairingExhausted"}
            => bootTimers' = Append(bootTimers, config.reconnectDelay) /\ ~exited'
       /\ \A b \in BotIds :
            bots[b].pc # "idle" /\ bots'[b].pc = "idle"
                => \/ bootTimers' # <<>>
                   \/ last'.sock \in SockIds /\ socks'[last'.sock].listeners
       /\ last'.act = "configError" => bootTimers' # <<>>]_vars

C9_Witness ==
    /\ last.act = "pairingExhausted"
    /\ bootTimers = <<config.reconnectDelay>>
    /\ \A b \in BotIds : bots[b].pc = "idle"
    /\ ~exited

BootFailures == {"authFailed", "versionFailed", "socketFailed", "pairingExhausted"}

\* a bootstrap has just started: startBot() ran its first lines
BootStarted == last.act \in {"startBot", "configError"}

\* C10: with timers that fire, every recoverable close event and every
\* bootstrap failure is followed by the start of a new bootstrap, unless the
\* process has ended meanwhile; and the process ends only in the handling of
\* a close event whose reason is the logged-out classification.
C10_BootstrapEventuallyRestarts ==
    /\ [](exited => last.act = "close" /\ last.info = LoggedOut)
    /\ ((last.act = "close" /\ last.info # LoggedOut) \/ last.act \in BootFailures)
           ~> (BootStarted \/ exited)

C10_Witness ==
    /\ last.act = "startBot"
    /\ lifecycle = "closed"
    /\ bootTimers = <<>>

\* C11: every pairing attempt, the first and every retry, has waited the whole
\* PAIRING_STABILIZATION_DELAY in its own stabilization timer before it
\* prompts and before its pairing-code request is issued.
C11_StabilizedBeforeRequest ==
    /\ \A b \in BotIds :
        bots[b].pc \in {"prompt", "request"} => bots[b].waited = PAIRING_STABILIZATION_DELAY
    /\ last.sent = "requestPairingCode" =>
        \E b \in BotIds : /\ bots[b].sock = last.sock
                          /\ bots[b].waited = PAIRING_STABILIZATION_DELAY

\* the request of a retry: the second attempt of a sequence that began at 0
C11_Witness ==
    /\ last.act = "answered"
    /\ last.sent = "requestPairingCode"
    /\ \E b \in BotIds : /\ bots[b].sock = last.sock
                          /\ bots[b].pc = "request"
                          /\ bots[b].seq = 1
                          /\ bots[b].waited = PAIRING_STABILIZATION_DELAY

\* the live timers of one kind
TimersOf(kind) == {t \in timers : t.kind = kind}

\* C12: stopping the maintenance timers is idempotent: in every state a stop
\* leaves no live presence and no live status-sync timer, a second stop after
\* it changes nothing, a stop with nothing running changes nothing, and after
\* every close handled, a repeated one included, no such timer is live.
C12_StopIsIdempotent ==
    /\ StopMaintenance(timers) = NoTimers
    /\ StopMaintenance(StopMaintenance(timers)) = StopMaintenance(timers)
    /\ StopMaintenance(NoTimers) = NoTimers
    /\ last.act = "close" => timers = NoTimers

\* a close handled while both handle variables hold a timer id and a
\* reconnection is pending already: both clearInterval calls run on timers
\* that an earlier stop has cleared, or that are live
C12_Witness ==
    /\ last.act = "close"
    /\ Len(bootTimers) = 2
    /\ presenceInterval # 0
    /\ statusSyncInterval # 0
    /\ timers = NoTimers
    /\ \A b \in BotIds : bots[b].pc = "idle"

\* C13: once makeWASocket has returned a new handle, the previous handle is
\* not used again: nothing is sent on it, and no open or close event of it is
\* handled (which would change state, start timers or schedule a bootstrap).
C13_PreviousHandleUnused ==
    (last.sock # 0 /\ last.sock # newest) =>
        /\ last.sent = "none"
        /\ last.act \notin {"open", "openResumed", "close"}

\* C14: a validateConfig failure in startBot is fatal: no reconnection timer
\* is armed for it.
C14_ConfigErrorIsFatal == last.act = "configError" => bootTimers = <<>>

\* C15: at most one presence timer and at most one status-sync timer are
\* live, each the one its handle variable holds (a start has cancelled the
\* timer it replaces), and a status-sync timer exists only when
\* config.autoViewStatus is set.
C15_OneTimerPerKind ==
    /\ Cardinality(TimersOf("presence")) <= 1
    /\ Cardinality(TimersOf("statusSync")) <= 1
    /\ \A t \in timers :
        t.id = (IF t.kind = "presence" THEN presenceInterval ELSE statusSyncInterval)
    /\ ~config.autoViewStatus => TimersOf("statusSync") = {} /\ statusSyncInterval = 0

\* the timers were started for a second handle while the first one is open
C15_Witness ==
    /\ last.act \in {"open", "openResumed"}
    /\ \A s \in SockIds : socks[s].st = "open"
    /\ Cardinality(TimersOf("presence")) = 1
    /\ config.autoViewStatus => Cardinality(TimersOf("statusSync")) = 1
    /\ \A t \in timers : t.sock = last.sock

\* C16: when a close event has been handled, with a reconnection scheduled or
\* the process ended, no presence or status-sync timer made for the handle
\* that closed is live.
C16_ClosedHandleHasNoTimer ==
    last.act = "close" => \A t \in timers : t.sock # last.sock

\* the close of the newest handle, after its open handler had started the
\* timers, with a reason that reconnects
C16_Witness ==
    /\ last.act = "close"
    /\ last.sock = newest
    /\ last.info = ConnectionClosed
    /\ presenceInterval # 0
    /\ bootTimers = <<config.reconnectDelay>>
    /\ socks[last.sock].st = "closed"
    /\ last.sock \notin openHandlers

\* C17: retryAttempts is within 0..MAX_RETRY_ATTEMPTS in every state, and is
\* 0 after every successful pairing-code request and after every open event
\* handled.
C17_RetryCounterInRange ==
    /\ retryAttempts \in 0..MAX_RETRY_ATTEMPTS
    /\ last.act \in {"paired", "open"} => retryAttempts = 0

\* a request that succeeds with the counter at its maximum
C17_Witness ==
    /\ last.act = "paired"
    /\ last.info = MAX_RETRY_ATTEMPTS
    /\ retryAttempts = 0

\* C18: a pairing sequence started by a bootstrap while no other invocation
\* is pairing starts with the retry counter at 0, also when the sequence
\* before it ended in the exhaustion failure.
C18_FullBudgetAtSequenceStart ==
    (/\ last.act = "pairingStarted"
     /\ \A b \in BotIds :
            bots[b].sock # last.sock => bots[b].pc \notin (PairingPcs \cup {"backoff"}))
        => retryAttempts = 0

\* C19: a TTL timer that fires for an id while a timer armed later for the
\* same id is pending (so it was armed by an earlier insertion) does not
\* remove the entry the later insertion made.
C19_StaleTimerKeepsEntry ==
    [][(/\ lastView'.act = "expired"
        /\ Has(viewedStatus, lastView'.id)
        /\ ttlTimers[lastView'.id] > 1)
            => Has(viewedStatus', lastView'.id)]_vars

\* C20: when the transport of the newest handle has closed, at any time after
\* makeWASocket returned it, the pairing phase included, its close was handled
\* by handleConnectionUpdate (its listeners were attached).
C20_NoCloseLost ==
    newest # 0 /\ socks[newest].st = "closed" => socks[newest].listeners

====
